---------------------------- MODULE Spec2Model ----------------------------
(* Model of rclone_backup_to_onedrive.py: the job runner (main), the tier   *)
(* rotation of process_backup_config, the bounded retry of rclone_operation,*)
(* the local and remote retention passes and the file name generator.       *)
(* File names are sequences of character codes, so that Python's sorted()   *)
(* on strings is the lexicographic order on these sequences.                *)
EXTENDS Integers, Sequences, FiniteSets, TLC

----------------------------------------------------------------------------
(* Bounds of the model *)

MaxRuns == 2          \* invocations of the script (cron runs)
MaxFaults == 1        \* external steps of one behaviour that meet a failure
MaxK == 2             \* largest retention count in a configuration
MaxM == 1             \* largest max_local_backups in a configuration

(* Program constants *)

Retry == 3            \* rclone_operation(retry=3)
RetryDelay == 5       \* rclone_operation(delay=5)
SettleDelay == 2      \* time.sleep(2) after a successful command
JobDelay == 5         \* time.sleep(5) between two configurations
SecsPerDay == 24 * 3600

----------------------------------------------------------------------------
(* Calendar: datetime.datetime.now() is a record [day, sec], day counted    *)
(* from 1970-01-01 in the proleptic Gregorian calendar.                     *)

DaysFromCivil(y, m, d) ==
    LET yy  == IF m <= 2 THEN y - 1 ELSE y
        era == yy \div 400
        yoe == yy - era * 400
        mp  == IF m > 2 THEN m - 3 ELSE m + 9
        doy == (153 * mp + 2) \div 5 + d - 1
        doe == yoe * 365 + yoe \div 4 - yoe \div 100 + doy
    IN  era * 146097 + doe - 719468

CivilFromDays(z0) ==
    LET z   == z0 + 719468
        era == z \div 146097
        doe == z - era * 146097
        yoe == (doe - doe \div 1460 + doe \div 36524 - doe \div 146096) \div 365
        doy == doe - (365 * yoe + yoe \div 4 - yoe \div 100)
        mp  == (5 * doy + 2) \div 153
        d   == doy - (153 * mp + 2) \div 5 + 1
        m   == IF mp < 10 THEN mp + 3 ELSE mp - 9
        y   == yoe + era * 400 + (IF m <= 2 THEN 1 ELSE 0)
    IN  [year |-> y, month |-> m, day |-> d]

\* datetime.weekday(): Monday = 0 ... Sunday = 6
Weekday(t) == (t.day + 3) % 7

\* datetime.day
DayOfMonth(t) == CivilFromDays(t.day).day

\* strftime('%U'): week of the year, Sunday as the first day of the week;
\* the days before the first Sunday of the year are in week 0
WeekNumberU(t) ==
    LET yday == t.day - DaysFromCivil(CivilFromDays(t.day).year, 1, 1)
        wday == (Weekday(t) + 1) % 7
    IN  (yday + 7 - wday) \div 7

\* time.sleep(n)
AddSecs(t, n) ==
    [day |-> t.day + (t.sec + n) \div SecsPerDay, sec |-> (t.sec + n) % SecsPerDay]

Earlier(t1, t2) == t1.day < t2.day \/ (t1.day = t2.day /\ t1.sec < t2.sec)

----------------------------------------------------------------------------
(* Strings as sequences of character codes *)

Pow10(n) == IF n = 0 THEN 1 ELSE IF n = 1 THEN 10 ELSE IF n = 2 THEN 100 ELSE 1000

\* zero padded decimal of width w (w <= 4)
Digits(n, w) == [i \in 1..w |-> 48 + ((n \div Pow10(w - i)) % 10)]

StrDaily   == <<100, 97, 105, 108, 121>>
StrWeekly  == <<119, 101, 101, 107, 108, 121>>
StrMonthly == <<109, 111, 110, 116, 104, 108, 121>>
StrDash    == <<45>>
StrW       == <<87>>
StrTarGz   == <<46, 116, 97, 114, 46, 103, 122>>

\* strftime('%Y%m%d%H%M%S')
Timestamp(t) ==
    LET c == CivilFromDays(t.day)
    IN  Digits(c.year, 4) \o Digits(c.month, 2) \o Digits(c.day, 2)
        \o Digits(t.sec \div 3600, 2) \o Digits((t.sec % 3600) \div 60, 2)
        \o Digits(t.sec % 60, 2)

\* strftime('%Y%m')
YearMonth(t) ==
    LET c == CivilFromDays(t.day) IN Digits(c.year, 4) \o Digits(c.month, 2)

get_backup_filename(period, config_name, t) ==
    IF period = "daily"
    THEN StrDaily \o StrDash \o config_name \o StrDash \o Timestamp(t) \o StrTarGz
    ELSE IF period = "weekly"
    THEN StrWeekly \o StrDash \o config_name \o StrDash \o StrW
         \o Digits(WeekNumberU(t), 2) \o StrDash \o Timestamp(t) \o StrTarGz
    ELSE IF period = "monthly"
    THEN StrMonthly \o StrDash \o config_name \o StrDash \o YearMonth(t)
         \o StrDash \o Timestamp(t) \o StrTarGz
    ELSE Timestamp(t) \o StrDash \o config_name \o StrTarGz

\* Python's str < str
RECURSIVE LexLess(_, _)
LexLess(a, b) ==
    IF b = <<>> THEN FALSE
    ELSE IF a = <<>> THEN TRUE
    ELSE IF Head(a) # Head(b) THEN Head(a) < Head(b)
    ELSE LexLess(Tail(a), Tail(b))

\* sorted(names)
RECURSIVE Sorted(_)
Sorted(S) ==
    IF S = {} THEN <<>>
    ELSE LET lo == CHOOSE x \in S : \A y \in S \ {x} : LexLess(x, y)
         IN  <<lo>> \o Sorted(S \ {lo})

\* f.endswith(".tar.gz")
EndsWithTarGz(f) ==
    /\ Len(f) >= Len(StrTarGz)
    /\ SubSeq(f, Len(f) - Len(StrTarGz) + 1, Len(f)) = StrTarGz

\* seq[:-k] for k >= 0: Python reads -0 as 0, so seq[:-0] is seq[:0]
SliceDropLast(seq, k) ==
    IF k = 0 THEN <<>>
    ELSE IF k >= Len(seq) THEN <<>>
    ELSE SubSeq(seq, 1, Len(seq) - k)

Range(seq) == {seq[i] : i \in 1..Len(seq)}

\* a directory as a function from file name to content
Put(dir, name, content) ==
    [f \in DOMAIN dir \cup {name} |-> IF f = name THEN content ELSE dir[f]]

Remove(dir, names) == [f \in DOMAIN dir \ names |-> dir[f]]

EmptyDir == [f \in {} |-> 0]

----------------------------------------------------------------------------
(* Inputs *)

\* days on which cron may start the script: Sunday 2024-12-01 (first of the
\* month), Sunday 2024-12-29, Wednesday 2025-01-01, Sunday 2025-01-05
RunDays == {DaysFromCivil(2024, 12, 1), DaysFromCivil(2024, 12, 29),
            DaysFromCivil(2025, 1, 1), DaysFromCivil(2025, 1, 5)}

\* time of day at which cron starts the script (03:00:00)
RunSecs == {10800}

Tiers == {"daily", "weekly", "monthly"}

\* backup_name of the two configuration files: "a" and "b"
NameA == <<97>>
NameB == <<98>>

\* a configuration as load_yaml_config returns it, with retention count k
\* for the three tiers and max_local_backups m; valid = FALSE stands for a
\* file for which load_yaml_config returns None
Config(n, k, m, valid) ==
    [valid |-> valid, backup_name |-> n, daily_retention |-> k,
     weekly_retention |-> k, monthly_retention |-> k, max_local_backups |-> m]

\* yaml_files: the first file may be one that load_yaml_config rejects, the
\* second is valid; both set the same counts
ConfigLists ==
    {<<Config(NameA, k, m, v), Config(NameB, k, m, TRUE)>> :
        k \in 0..MaxK, m \in 0..MaxM, v \in BOOLEAN}

\* the daily tier of the first configuration holds the archives of two
\* earlier runs (2024-11-29 and 2024-11-30) when the model starts
HistoryTimes == {[day |-> DaysFromCivil(2024, 11, 29), sec |-> 10847],
                 [day |-> DaysFromCivil(2024, 11, 30), sec |-> 10847]}

HistoryDir(n) ==
    [f \in {get_backup_filename("daily", n, t) : t \in HistoryTimes} |-> <<0, 1>>]

\* its weekly tier holds the archive of Sunday 2023-12-31, week 53 of 2023:
\* the weekly archives made since sorted before it and were pruned as old
WeeklyHistoryDir(n) ==
    [f \in {get_backup_filename("weekly", n,
                [day |-> DaysFromCivil(2023, 12, 31), sec |-> 10862])} |-> <<0, 1>>]


NoName == <<>>

NoJob == [backup_filename |-> NoName, status |-> "none", upload_ok |-> FALSE,
          mkdirs |-> {}, sunday |-> FALSE, first |-> FALSE,
          weekly_ran |-> FALSE, monthly_ran |-> FALSE,
          weekly_name |-> NoName, weekly_success |-> FALSE,
          monthly_name |-> NoName, latest_weekly |-> NoName,
          weekly_before |-> {}, monthly_before |-> {}, weekly_empty |-> FALSE,
          tier_failures |-> {}, daily_before |-> {}, daily_pass |-> "none",
          monthly_success |-> FALSE, build_failed |-> FALSE]

NoPass == [tier |-> "none", listed |-> FALSE, before |-> {}, stale |-> <<>>,
           i |-> 0, tried |-> <<>>, failed |-> {}, done |-> FALSE, K |-> 0]

NoGate == [probes |-> 0, reconnects |-> 0, probe |-> "none",
           reconnect |-> "none", snapshot |-> <<>>]

NoOp == [site |-> "none", attempts |-> 0, oks |-> 0, result |-> FALSE]

VARIABLES
    now,        \* the wall clock
    configs,    \* the configurations of yaml_files, in list order
    run,        \* number of invocations of the script so far
    idx,        \* position of main's loop in yaml_files
    pc,         \* position of the running script
    localDir,   \* LOCAL_BACKUP_DIR: file name -> content
    remote,     \* remote[i][tier]: the tier directory of configuration i
    job,        \* locals of process_backup_config
    attempt,    \* failed attempts of the running rclone_operation
    lastOp,     \* the rclone_operation that returned last
    mb,         \* the running or last manage_backups_by_count pass
    outcomes,   \* FINAL_STATUS lines written to the log by this run
    started,    \* job executions begun by main in this run, as <<run, idx>>
    ended,      \* job executions of this run that returned to main
    aborted,    \* job executions ended by an exception nobody caught
    preserved,  \* <<run, name>> of the daily archives of this run whose
                \* transfer failed
    faults,     \* external steps that did not succeed at once, so far
    probe,      \* inputs and results of the function under test on its own
    gate        \* check_onedrive_access of this run: its commands and results

vars == <<now, configs, run, idx, pc, localDir, remote, job, attempt, lastOp,
          mb, outcomes, started, ended, aborted, preserved, faults, probe, gate>>

runnerVars == <<now, configs, run, idx, pc, localDir, remote, job, attempt,
                lastOp, mb, outcomes, started, ended, aborted, preserved, faults,
                gate>>

NoProbe == [stage |-> "none", period |-> "none", t1 |-> [day |-> 0, sec |-> 0],
            t2 |-> [day |-> 0, sec |-> 0], n1 |-> NoName, n2 |-> NoName]

Init ==
    /\ now = [day |-> 0, sec |-> 0]
    /\ configs \in ConfigLists
    /\ run = 0
    /\ idx = 0
    /\ pc = "idle"
    /\ localDir = EmptyDir
    /\ remote = [i \in 1..2 |->
                    [t \in Tiers |-> IF i = 1 /\ t = "daily"
                                     THEN HistoryDir(NameA)
                                     ELSE IF i = 1 /\ t = "weekly"
                                     THEN WeeklyHistoryDir(NameA)
                                     ELSE EmptyDir]]
    /\ job = NoJob
    /\ attempt = 0
    /\ lastOp = NoOp
    /\ mb = NoPass
    /\ outcomes = <<>>
    /\ started = {}
    /\ ended = {}
    /\ aborted = {}
    /\ preserved = {}
    /\ faults = 0
    /\ probe = NoProbe
    /\ gate = NoGate

cfg == configs[idx]
exec == <<run, idx>>
CanFail == faults < MaxFaults

\* os.path.join(LOCAL_BACKUP_DIR, name) exists
Exists(name) == name \in DOMAIN localDir

----------------------------------------------------------------------------
(* __main__ and main *)

\* cron starts the script; __main__ reaches check_onedrive_access
Launch ==
    /\ pc \in {"idle", "crashed"}
    /\ run < MaxRuns
    /\ \E d \in RunDays, s \in RunSecs :
          /\ d > now.day
          /\ now' = [day |-> d, sec |-> s]
    /\ run' = run + 1
    /\ idx' = 0
    /\ pc' = "check_access"
    /\ outcomes' = <<>>
    /\ started' = {}
    /\ ended' = {}
    /\ aborted' = {}
    /\ preserved' = {}
    /\ job' = NoJob
    /\ attempt' = 0
    /\ lastOp' = NoOp
    /\ mb' = NoPass
    /\ gate' = [NoGate EXCEPT !.snapshot = <<localDir, remote>>]
    /\ UNCHANGED <<configs, localDir, remote, faults, probe>>

\* a variant of __main__ that goes on to main() whatever the check returned
AfterAccessCheck_ignored(ok) == "main"

\* if not check_onedrive_access(): exit(1); otherwise main()
AfterAccessCheck(ok) == IF ok THEN "main" ELSE "idle"

\* check_onedrive_access: rclone lsf onedrive:/
CheckOnedriveAccess ==
    /\ pc = "check_access"
    /\ \/ /\ now' = AddSecs(now, SettleDelay)
          /\ pc' = AfterAccessCheck(TRUE)
          /\ idx' = 1
          /\ gate' = [gate EXCEPT !.probes = @ + 1, !.probe = "ok",
                                  !.snapshot = <<>>]
          /\ UNCHANGED faults
       \/ /\ CanFail
          /\ faults' = faults + 1
          /\ pc' = "reconnect"
          /\ gate' = [gate EXCEPT !.probes = @ + 1, !.probe = "failed"]
          /\ UNCHANGED <<now, idx>>
    /\ UNCHANGED <<configs, run, localDir, remote, job, attempt, lastOp, mb,
                   outcomes, started, ended, aborted, preserved, probe>>

\* check_onedrive_access: rclone config reconnect; when it fails too the
\* function returns False
Reconnect ==
    /\ pc = "reconnect"
    /\ UNCHANGED faults
    /\ \/ /\ now' = AddSecs(now, SettleDelay)
          /\ pc' = AfterAccessCheck(TRUE)
          /\ gate' = [gate EXCEPT !.reconnects = @ + 1, !.reconnect = "ok",
                                  !.snapshot = <<>>]
       \/ /\ pc' = AfterAccessCheck(FALSE)
          /\ gate' = [gate EXCEPT !.reconnects = @ + 1, !.reconnect = "failed"]
          /\ UNCHANGED now
    /\ idx' = IF pc' = "main" THEN 1 ELSE idx
    /\ UNCHANGED <<configs, run, localDir, remote, job, attempt, lastOp, mb,
                   outcomes, started, ended, aborted, preserved, probe>>

\* status.upper()
Upper(status) ==
    IF status \in {"success", "SUCCESS"} THEN "SUCCESS" ELSE "FAILURE"

\* a variant that reports the jobs that succeeded only
write_final_status_on_success(log, e, name, status) ==
    IF Upper(status) = "SUCCESS"
    THEN Append(log, [exec |-> e, backup |-> name, status |-> Upper(status)])
    ELSE log

\* write_final_status: one FINAL_STATUS line is added to the log
write_final_status(log, e, name, status) ==
    Append(log, [exec |-> e, backup |-> name, status |-> Upper(status)])

\* main: the loop has run through yaml_files
MainExit ==
    /\ pc = "main"
    /\ idx > Len(configs)
    /\ pc' = "idle"
    /\ UNCHANGED <<now, configs, run, idx, localDir, remote, job, attempt,
                   lastOp, mb, outcomes, started, ended, aborted, preserved, faults, probe, gate>>

\* a variant that leaves the loop at a rejected file: break
NextAfterSkip_break(i, n) == n + 1

\* continue: the position of the loop after file i of n was rejected
NextAfterSkip(i, n) == i + 1

\* main: load_yaml_config returned None
SkipInvalid ==
    /\ pc = "main"
    /\ idx <= Len(configs)
    /\ ~cfg.valid
    /\ started' = started \cup {exec}
    /\ ended' = ended \cup {exec}
    /\ outcomes' = write_final_status(outcomes, exec, cfg.backup_name, "FAILURE")
    /\ idx' = NextAfterSkip(idx, Len(configs))
    /\ UNCHANGED <<now, configs, run, pc, localDir, remote, job, attempt,
                   lastOp, mb, aborted, preserved, faults, probe, gate>>

\* main: process_backup_config is called
BeginJob ==
    /\ pc = "main"
    /\ idx <= Len(configs)
    /\ cfg.valid
    /\ started' = started \cup {exec}
    /\ job' = [NoJob EXCEPT !.daily_before = DOMAIN remote[idx]["daily"],
                            !.weekly_before = DOMAIN remote[idx]["weekly"],
                            !.monthly_before = DOMAIN remote[idx]["monthly"]]
    /\ attempt' = 0
    /\ lastOp' = NoOp
    /\ mb' = NoPass
    /\ pc' = "mkdir_daily"
    /\ UNCHANGED <<now, configs, run, idx, localDir, remote, outcomes, ended,
                   aborted, preserved, faults, probe, gate>>

----------------------------------------------------------------------------
(* rclone_operation: the bounded retry loop around run_command *)

\* a variant whose loop has one round too few
AttemptsExhausted_early(n) == n >= Retry - 1

\* for attempt in range(retry): the loop is over after n failed attempts
AttemptsExhausted(n) == n >= Retry

\* The clock is read between the calls of rclone_operation, never inside
\* one. A call, with the runs of its command and its sleeps, is taken to last
\* as long as its slowest case, retry rounds of delay seconds each.
OpSecs == Retry * RetryDelay

\* run_command returned True: time.sleep(2); return True
OpSucceeds(site) ==
    /\ pc = site
    /\ now' = AddSecs(now, OpSecs)
    /\ lastOp' = [site |-> site, attempts |-> attempt + 1, oks |-> 1, result |-> TRUE]
    /\ attempt' = 0
    /\ UNCHANGED faults

\* run_command returned False and the loop goes on: time.sleep(delay)
OpRetries(site) ==
    /\ pc = site
    /\ attempt > 0 \/ CanFail
    /\ ~AttemptsExhausted(attempt + 1)
    /\ faults' = IF attempt = 0 THEN faults + 1 ELSE faults
    /\ attempt' = attempt + 1
    /\ UNCHANGED <<now, configs, run, idx, pc, localDir, remote, job, lastOp, mb,
                   outcomes, started, ended, aborted, preserved, probe, gate>>

\* run_command returned False in the last round of the loop: return False
OpGivesUp(site) ==
    /\ pc = site
    /\ attempt > 0 \/ CanFail
    /\ AttemptsExhausted(attempt + 1)
    /\ faults' = IF attempt = 0 THEN faults + 1 ELSE faults
    /\ now' = AddSecs(now, OpSecs)
    /\ lastOp' = [site |-> site, attempts |-> attempt + 1, oks |-> 0, result |-> FALSE]
    /\ attempt' = 0

\* rclone_operation("mkdir", ...): the result is not used by the caller
Mkdir(site, tier, next) ==
    \/ /\ OpSucceeds(site)
       /\ job' = [job EXCEPT !.mkdirs = @ \cup {tier}]
       /\ pc' = next
       /\ UNCHANGED <<configs, run, idx, localDir, remote, mb, outcomes,
                      started, ended, aborted, preserved, probe, gate>>
    \/ OpRetries(site)
    \/ /\ OpGivesUp(site)
       /\ pc' = next
       /\ UNCHANGED <<configs, run, idx, localDir, remote, job, mb, outcomes,
                      started, ended, aborted, preserved, probe, gate>>

MkdirDaily == Mkdir("mkdir_daily", "daily", "mkdir_weekly")
MkdirWeekly == Mkdir("mkdir_weekly", "weekly", "mkdir_monthly")
MkdirMonthly == Mkdir("mkdir_monthly", "monthly", "local_retention")

----------------------------------------------------------------------------
(* manage_local_backups *)

LocalBackups(dir) == Sorted({f \in DOMAIN dir : EndsWithTarGz(f)})

\* a variant that slices from the front: local_backups[:max_backups]
LocalToDelete_first(dir, max_backups) ==
    IF max_backups = 0 THEN Range(LocalBackups(dir))
    ELSE IF max_backups > 0 /\ Len(LocalBackups(dir)) > max_backups
         THEN Range(SubSeq(LocalBackups(dir), 1, max_backups))
         ELSE {}

\* a variant that removes the oldest file only: local_backups[:1]
LocalToDelete_one(dir, max_backups) ==
    IF max_backups = 0 THEN Range(LocalBackups(dir))
    ELSE IF max_backups > 0 /\ Len(LocalBackups(dir)) > max_backups
         THEN Range(SubSeq(LocalBackups(dir), 1, 1))
         ELSE {}

\* the files manage_local_backups removes
LocalToDelete(dir, max_backups) ==
    IF max_backups = 0 THEN Range(LocalBackups(dir))
    ELSE IF max_backups > 0 /\ Len(LocalBackups(dir)) > max_backups
         THEN Range(SliceDropLast(LocalBackups(dir), max_backups))
         ELSE {}

manage_local_backups(dir, max_backups) == Remove(dir, LocalToDelete(dir, max_backups))

\* process_backup_config: local retention, then the daily file name
PrepareDaily ==
    /\ pc = "local_retention"
    /\ localDir' = manage_local_backups(localDir, cfg.max_local_backups)
    /\ job' = [job EXCEPT
                 !.backup_filename = get_backup_filename("daily", cfg.backup_name, now),
                 !.status = "failure"]
    /\ pc' = "tarball"
    /\ UNCHANGED <<now, configs, run, idx, remote, attempt, lastOp, mb,
                   outcomes, started, ended, aborted, preserved, faults, probe, gate>>

----------------------------------------------------------------------------
(* create_tarball and the daily transfer *)

Partial == <<0, 0>>

\* create_tarball: True with the archive written, or False after an
\* exception, which leaves no file or a partly written one
CreateTarball ==
    /\ pc = "tarball"
    /\ \/ /\ localDir' = Put(localDir, job.backup_filename, exec)
          /\ pc' = "upload_daily"
          /\ UNCHANGED <<faults, job>>
       \/ /\ CanFail
          /\ faults' = faults + 1
          /\ \/ UNCHANGED localDir
             \/ localDir' = Put(localDir, job.backup_filename, Partial)
          /\ job' = [job EXCEPT !.build_failed = TRUE]
          /\ pc' = "rotation"
    /\ UNCHANGED <<now, configs, run, idx, remote, attempt, lastOp, mb,
                   outcomes, started, ended, aborted, preserved, probe, gate>>

StartPass(tier, k) == [NoPass EXCEPT !.tier = tier, !.K = k]

\* rclone_operation("copy", backup_filepath, DAILY_BACKUP_DIR)
UploadDaily ==
    \/ /\ OpSucceeds("upload_daily")
       /\ remote' = [remote EXCEPT ![idx]["daily"] =
                        Put(@, job.backup_filename, localDir[job.backup_filename])]
       /\ job' = [job EXCEPT !.upload_ok = TRUE]
       /\ mb' = StartPass("daily", cfg.daily_retention)
       /\ pc' = "retain"
       /\ UNCHANGED <<configs, run, idx, localDir, outcomes, started, ended, aborted,
                      preserved, probe, gate>>
    \/ OpRetries("upload_daily")
    \/ /\ OpGivesUp("upload_daily")
       /\ preserved' = preserved \cup {<<run, job.backup_filename>>}
       /\ pc' = "rotation"
       /\ UNCHANGED <<configs, run, idx, localDir, remote, job, mb, outcomes,
                      started, ended, aborted, probe, gate>>

----------------------------------------------------------------------------
(* manage_backups_by_count *)

\* a variant that slices from the other end: backups[retention_count:]
StaleBackups_newest(backups, retention_count) ==
    IF Len(backups) > retention_count
    THEN SubSeq(backups, retention_count + 1, Len(backups))
    ELSE <<>>

\* backups_to_delete: backups[:-retention_count] when there are too many
StaleBackups(backups, retention_count) ==
    IF Len(backups) > retention_count
    THEN SliceDropLast(backups, retention_count)
    ELSE <<>>

\* a variant that leaves the loop at the first deletion that fails
NextDelete_stop(i, ok, n) == IF ok THEN i + 1 ELSE n + 1

\* for backup in backups_to_delete: the entry handled after entry i, whose
\* run_command returned ok; n is len(backups_to_delete)
NextDelete(i, ok, n) == i + 1

\* a variant in which a failed step of the rotation fails the job
TierFailure_fatal(j, step) ==
    [j EXCEPT !.tier_failures = @ \cup {step}, !.status = "failure"]

\* a step of the weekly or monthly derivation failed: the except clauses
\* and the tests of the results log the failure and leave status alone
TierFailure(j, step) == [j EXCEPT !.tier_failures = @ \cup {step}]

\* the listing of the pass failed, or one of its deletions did
PassFailed(pass) == (pass.done /\ ~pass.listed) \/ pass.failed # {}

\* the statement after the pass, by call site
AfterRetain(tier) ==
    IF tier = "daily" THEN "rotation"
    ELSE IF tier = "weekly" THEN "monthly_check"
    ELSE "monthly_cleanup"

\* status = "success" follows the daily pass, whatever the pass did
StatusAfterDailyPass(pass) == "success"

PassReturns(pass) ==
    /\ pc' = IF pass.done THEN AfterRetain(pass.tier) ELSE "retain"
    /\ job' = IF pass.tier = "daily"
              THEN IF pass.done
                   THEN [job EXCEPT !.status = StatusAfterDailyPass(pass),
                                    !.daily_pass = IF PassFailed(pass)
                                                   THEN "failed" ELSE "clean"]
                   ELSE job
              ELSE IF PassFailed(pass)
                   THEN TierFailure(job, pass.tier)
                   ELSE job

\* rclone lsf remote_path --files-only; CalledProcessError ends the pass
ListBackups ==
    /\ pc = "retain"
    /\ ~mb.listed
    /\ ~mb.done
    /\ \/ LET stale == StaleBackups(Sorted(DOMAIN remote[idx][mb.tier]), mb.K)
              pass == [mb EXCEPT !.listed = TRUE,
                                 !.before = DOMAIN remote[idx][mb.tier],
                                 !.stale = stale, !.i = 1,
                                 !.done = (stale = <<>>)]
          IN  /\ mb' = pass
              /\ PassReturns(pass)
              /\ UNCHANGED faults
       \/ /\ CanFail
          /\ faults' = faults + 1
          /\ mb' = [mb EXCEPT !.done = TRUE]
          /\ PassReturns([mb EXCEPT !.done = TRUE])
    /\ UNCHANGED <<now, configs, run, idx, localDir, remote, attempt, lastOp,
                   outcomes, started, ended, aborted, preserved, probe, gate>>

\* run_command([RCLONE_PATH, "deletefile", ...]) for one stale entry
DeleteBackup ==
    /\ pc = "retain"
    /\ mb.listed
    /\ ~mb.done
    /\ \E ok \in BOOLEAN :
          LET name == mb.stale[mb.i]
              next == NextDelete(mb.i, ok, Len(mb.stale))
              pass == [mb EXCEPT !.tried = Append(@, name),
                                 !.failed = IF ok THEN @ ELSE @ \cup {name},
                                 !.i = next,
                                 !.done = (next > Len(mb.stale))]
          IN  /\ ok \/ CanFail
              /\ faults' = IF ok THEN faults ELSE faults + 1
              /\ remote' = IF ok
                           THEN [remote EXCEPT ![idx][mb.tier] = Remove(@, {name})]
                           ELSE remote
              /\ mb' = pass
              /\ PassReturns(pass)
    /\ UNCHANGED <<now, configs, run, idx, localDir, attempt, lastOp,
                   outcomes, started, ended, aborted, preserved, probe, gate>>

----------------------------------------------------------------------------
(* weekly and monthly rotation *)

\* current_weekday == 6
IsWeeklyBoundary(weekday) == weekday = 6

\* a variant that takes every day for the first of the month
IsMonthlyBoundary_always(day) == day >= 1

\* current_day == 1
IsMonthlyBoundary(day) == day = 1

\* a variant that enters the rotation whatever the daily stage did
RotationDue_always(status) == TRUE

\* if status == "success": the weekly and monthly rotation is attempted
RotationDue(status) == status = "success"

\* if status == "success": read the calendar once, then the weekly test
Rotation ==
    /\ pc = "rotation"
    /\ IF RotationDue(job.status)
       THEN LET sunday == IsWeeklyBoundary(Weekday(now))
                first == IsMonthlyBoundary(DayOfMonth(now))
            IN  /\ job' = [job EXCEPT
                             !.sunday = sunday, !.first = first,
                             !.weekly_name =
                                 IF sunday
                                 THEN get_backup_filename("weekly", cfg.backup_name, now)
                                 ELSE NoName]
                /\ pc' = IF sunday THEN "weekly_copy" ELSE "monthly_check"
       ELSE /\ pc' = "local_cleanup"
            /\ UNCHANGED job
    /\ UNCHANGED <<now, configs, run, idx, localDir, remote, attempt, lastOp,
                   mb, outcomes, started, ended, aborted, preserved, faults, probe, gate>>

\* shutil.copy2(backup_filepath, weekly_backup_filepath); an exception is
\* caught by the weekly try
WeeklyCopy ==
    /\ pc = "weekly_copy"
    /\ \/ /\ Exists(job.backup_filename)
          /\ job' = [job EXCEPT !.weekly_ran = TRUE]
          /\ localDir' = Put(localDir, job.weekly_name, localDir[job.backup_filename])
          /\ pc' = "upload_weekly"
          /\ UNCHANGED faults
       \/ /\ CanFail
          /\ faults' = faults + 1
          /\ job' = TierFailure([job EXCEPT !.weekly_ran = TRUE], "weekly_copy")
          /\ pc' = "monthly_check"
          /\ UNCHANGED localDir
    /\ UNCHANGED <<now, configs, run, idx, remote, attempt, lastOp, mb,
                   outcomes, started, ended, aborted, preserved, probe, gate>>

\* rclone_operation("copy", weekly_backup_filepath, WEEKLY_BACKUP_DIR)
UploadWeekly ==
    \/ /\ OpSucceeds("upload_weekly")
       /\ remote' = [remote EXCEPT ![idx]["weekly"] =
                        Put(@, job.weekly_name, localDir[job.weekly_name])]
       /\ localDir' = Remove(localDir, {job.weekly_name})
       /\ job' = [job EXCEPT !.weekly_success = TRUE]
       /\ mb' = StartPass("weekly", cfg.weekly_retention)
       /\ pc' = "retain"
       /\ UNCHANGED <<configs, run, idx, outcomes, started, ended, aborted, preserved, probe, gate>>
    \/ OpRetries("upload_weekly")
    \/ /\ OpGivesUp("upload_weekly")
       /\ job' = TierFailure(job, "upload_weekly")
       /\ pc' = "monthly_check"
       /\ UNCHANGED <<configs, run, idx, localDir, remote, mb, outcomes,
                      started, ended, aborted, preserved, probe, gate>>

\* if current_day == 1: the monthly file name
MonthlyCheck ==
    /\ pc = "monthly_check"
    /\ IF job.first
       THEN /\ job' = [job EXCEPT
                         !.monthly_ran = TRUE,
                         !.monthly_name =
                             get_backup_filename("monthly", cfg.backup_name, now)]
            /\ pc' = "monthly_list"
       ELSE /\ pc' = "local_cleanup"
            /\ UNCHANGED job
    /\ UNCHANGED <<now, configs, run, idx, localDir, remote, attempt, lastOp,
                   mb, outcomes, started, ended, aborted, preserved, faults, probe, gate>>

\* rclone lsf WEEKLY_BACKUP_DIR --files-only; weekly_backups[-1]
MonthlyList ==
    /\ pc = "monthly_list"
    /\ \/ /\ UNCHANGED faults
          /\ LET weekly_backups == Sorted(DOMAIN remote[idx]["weekly"])
             IN  IF weekly_backups # <<>>
                 THEN /\ job' = [job EXCEPT !.latest_weekly =
                                               weekly_backups[Len(weekly_backups)]]
                      /\ pc' = "download_weekly"
                 ELSE /\ job' = [job EXCEPT !.weekly_empty = TRUE]
                      /\ pc' = "local_cleanup"
       \/ /\ CanFail
          /\ faults' = faults + 1
          /\ pc' = "local_cleanup"
          /\ job' = TierFailure(job, "monthly_list")
    /\ UNCHANGED <<now, configs, run, idx, localDir, remote, attempt, lastOp,
                   mb, outcomes, started, ended, aborted, preserved, probe, gate>>

\* a variant that transfers with rclone move, which deletes the source
CopySource_move(dir, name) == Remove(dir, {name})

\* the source directory of an rclone copy, after the copy: the file stays
CopySource(dir, name) == dir

\* rclone_operation("copy", latest_weekly_backup_path, LOCAL_BACKUP_DIR):
\* the result is not used by the caller
DownloadWeekly ==
    \/ /\ OpSucceeds("download_weekly")
       /\ localDir' = Put(localDir, job.latest_weekly,
                          remote[idx]["weekly"][job.latest_weekly])
       /\ remote' = [remote EXCEPT ![idx]["weekly"] =
                        CopySource(@, job.latest_weekly)]
       /\ pc' = "monthly_copy"
       /\ UNCHANGED <<configs, run, idx, job, mb, outcomes, started,
                      ended, aborted, preserved, probe, gate>>
    \/ OpRetries("download_weekly")
    \/ /\ OpGivesUp("download_weekly")
       /\ job' = TierFailure(job, "download_weekly")
       /\ pc' = "monthly_copy"
       /\ UNCHANGED <<configs, run, idx, localDir, remote, mb, outcomes,
                      started, ended, aborted, preserved, probe, gate>>

\* if os.path.exists(downloaded_weekly_local): shutil.copy2 to the monthly name
MonthlyCopy ==
    /\ pc = "monthly_copy"
    /\ IF Exists(job.latest_weekly)
       THEN /\ localDir' = Put(localDir, job.monthly_name, localDir[job.latest_weekly])
            /\ pc' = "upload_monthly"
       ELSE /\ pc' = "local_cleanup"
            /\ UNCHANGED localDir
    /\ UNCHANGED <<now, configs, run, idx, remote, job, attempt, lastOp, mb,
                   outcomes, started, ended, aborted, preserved, faults, probe, gate>>

\* rclone_operation("copy", monthly_backup_filepath, MONTHLY_BACKUP_DIR)
UploadMonthly ==
    \/ /\ OpSucceeds("upload_monthly")
       /\ remote' = [remote EXCEPT ![idx]["monthly"] =
                        Put(@, job.monthly_name, localDir[job.monthly_name])]
       /\ localDir' = Remove(localDir, {job.monthly_name})
       /\ job' = [job EXCEPT !.monthly_success = TRUE]
       /\ mb' = StartPass("monthly", cfg.monthly_retention)
       /\ pc' = "retain"
       /\ UNCHANGED <<configs, run, idx, outcomes, started, ended, aborted,
                      preserved, probe, gate>>
    \/ OpRetries("upload_monthly")
    \/ /\ OpGivesUp("upload_monthly")
       /\ job' = TierFailure(job, "upload_monthly")
       /\ pc' = "monthly_cleanup"
       /\ UNCHANGED <<configs, run, idx, localDir, remote, mb, outcomes,
                      started, ended, aborted, preserved, probe, gate>>

\* clean up the downloaded weekly file
MonthlyCleanup ==
    /\ pc = "monthly_cleanup"
    /\ localDir' = Remove(localDir, {job.latest_weekly})
    /\ pc' = "local_cleanup"
    /\ UNCHANGED <<now, configs, run, idx, remote, job, attempt, lastOp, mb,
                   outcomes, started, ended, aborted, preserved, faults, probe, gate>>

----------------------------------------------------------------------------
(* the end of process_backup_config *)

\* if status == "success": remove the local daily tarball; os.remove is
\* outside every try, so an exception of it ends the script
\* a variant that removes the local daily archive on every path
CleanupDue_always(status) == TRUE

\* a variant that removes the local daily archive on the failure path only
CleanupDue_on_failure(status) == status # "success"

\* if status == "success": the local daily archive is to be removed
CleanupDue(status) == status = "success"

LocalCleanup ==
    /\ pc = "local_cleanup"
    /\ IF CleanupDue(job.status) /\ Exists(job.backup_filename)
       THEN \/ /\ localDir' = Remove(localDir, {job.backup_filename})
               /\ pc' = "report"
               /\ UNCHANGED <<faults, aborted>>
            \/ /\ CanFail
               /\ faults' = faults + 1
               /\ pc' = "crashed"
               /\ aborted' = aborted \cup {exec}
               /\ UNCHANGED localDir
       ELSE /\ pc' = "report"
            /\ UNCHANGED <<localDir, faults, aborted>>
    /\ UNCHANGED <<now, configs, run, idx, remote, job, attempt, lastOp, mb,
                   outcomes, started, ended, preserved, probe, gate>>

\* write_final_status, return to main, time.sleep(5) before the next file
Report ==
    /\ pc = "report"
    /\ outcomes' = write_final_status(outcomes, exec, job.backup_filename, job.status)
    /\ ended' = ended \cup {exec}
    /\ now' = IF idx < Len(configs) THEN AddSecs(now, JobDelay) ELSE now
    /\ idx' = idx + 1
    /\ pc' = "main"
    /\ job' = NoJob
    /\ mb' = NoPass
    /\ lastOp' = NoOp
    /\ UNCHANGED <<configs, run, localDir, remote, attempt, started, aborted,
                   preserved, faults, probe, gate>>

----------------------------------------------------------------------------

Next ==
    \/ Launch
    \/ CheckOnedriveAccess
    \/ Reconnect
    \/ MainExit
    \/ SkipInvalid
    \/ BeginJob
    \/ MkdirDaily
    \/ MkdirWeekly
    \/ MkdirMonthly
    \/ PrepareDaily
    \/ CreateTarball
    \/ UploadDaily
    \/ ListBackups
    \/ DeleteBackup
    \/ Rotation
    \/ WeeklyCopy
    \/ UploadWeekly
    \/ MonthlyCheck
    \/ MonthlyList
    \/ DownloadWeekly
    \/ MonthlyCopy
    \/ UploadMonthly
    \/ MonthlyCleanup
    \/ LocalCleanup
    \/ Report

Spec == Init /\ [][Next]_vars

----------------------------------------------------------------------------
(* Properties of the job runner *)

\* FINAL_STATUS lines written for job execution e
OutcomesOf(e) == {i \in 1..Len(outcomes) : outcomes[i].exec = e}

RunnerPcs == {"idle", "check_access", "reconnect", "main"}

C2_CrashConsistency ==
    /\ pc \in {"rotation", "local_cleanup", "report"}
       /\ <<run, job.backup_filename>> \in preserved
       => /\ Exists(job.backup_filename)
          /\ Upper(job.status) # "SUCCESS"
    /\ \A i \in 1..Len(outcomes) :
          <<outcomes[i].exec[1], outcomes[i].backup>> \in preserved
          => outcomes[i].status # "SUCCESS"

C2_Witness ==
    /\ pc = "report"
    /\ <<run, job.backup_filename>> \in preserved
    /\ cfg.max_local_backups = 0
    /\ Exists(job.backup_filename)

\* C3: an archive whose transfer failed in this run is still in the staging
\* directory, whatever the later steps and jobs of the run do.
C3_PreservedUntouched ==
    \A p \in preserved : p[1] = run => p[2] \in DOMAIN localDir

\* the k last names of S in sorted order
Newest(S, k) ==
    LET srt == Sorted(S)
    IN  {srt[i] : i \in {j \in 1..Len(srt) : j > Len(srt) - k}}

Min(a, b) == IF a < b THEN a ELSE b

\* C4: after a pass of manage_backups_by_count whose listing and whose
\* deletions all succeeded, the tier holds min(K, n) of the n entries it held
\* before, and they are the K newest in name order.
C4_CountRetention ==
    pc \notin RunnerPcs /\ mb.done /\ mb.listed /\ mb.failed = {}
    => /\ Cardinality(DOMAIN remote[idx][mb.tier]) = Min(mb.K, Cardinality(mb.before))
       /\ DOMAIN remote[idx][mb.tier] = Newest(mb.before, mb.K)

----------------------------------------------------------------------------
(* The file name generator on its own: two instants, one name for each *)

ProbeDays == {DaysFromCivil(2024, 12, 1), DaysFromCivil(2024, 12, 29),
              DaysFromCivil(2024, 12, 31), DaysFromCivil(2025, 1, 1),
              DaysFromCivil(2025, 1, 5), DaysFromCivil(2025, 2, 1)}

ProbeSecs == {0, 10800, 86399}

ProbeTimes == {[day |-> d, sec |-> s] : d \in ProbeDays, s \in ProbeSecs}

\* two instants of datetime.now(), the first before the second
PickInstants ==
    /\ probe.stage = "none"
    /\ \E period \in Tiers, t1 \in ProbeTimes, t2 \in ProbeTimes :
          /\ Earlier(t1, t2)
          /\ probe' = [probe EXCEPT !.stage = "picked", !.period = period,
                                    !.t1 = t1, !.t2 = t2]
    /\ UNCHANGED runnerVars

\* get_backup_filename(period, "a") at the first instant
GenerateFirst ==
    /\ probe.stage = "picked"
    /\ probe' = [probe EXCEPT
                   !.stage = "first",
                   !.n1 = get_backup_filename(probe.period, NameA, probe.t1)]
    /\ UNCHANGED runnerVars

\* get_backup_filename(period, "a") at the second instant
GenerateSecond ==
    /\ probe.stage = "first"
    /\ probe' = [probe EXCEPT
                   !.stage = "done",
                   !.n2 = get_backup_filename(probe.period, NameA, probe.t2)]
    /\ UNCHANGED runnerVars

NameNext == PickInstants \/ GenerateFirst \/ GenerateSecond

NameSpec == Init /\ [][NameNext]_vars

\* C5: of two names that get_backup_filename makes for one tier and one job,
\* the one made at the earlier instant is the smaller in string order.
C5_NamesSortByTime ==
    probe.stage = "done" => LexLess(probe.n1, probe.n2)

----------------------------------------------------------------------------
(* Properties of the rotation, the retry loop and the remote retention *)

\* C6: in a job whose daily transfer succeeded, the weekly derivation runs
\* exactly when the day is a Sunday; after a successful weekly transfer the
\* weekly tier holds exactly one entry it did not hold when the job began,
\* the weekly archive of this job; on another day the job leaves the weekly
\* tier as it found it.
C6_WeeklyGating ==
    pc = "report" /\ job.upload_ok
    => /\ job.weekly_ran <=> Weekday(now) = 6
       /\ job.weekly_success
          => DOMAIN remote[idx]["weekly"] \ job.weekly_before = {job.weekly_name}
       /\ Weekday(now) # 6 => DOMAIN remote[idx]["weekly"] = job.weekly_before

\* C7: in a job whose daily transfer succeeded, the monthly derivation runs
\* exactly when the day of the month is 1; when the listing of the weekly
\* tier is empty, the monthly tier is as the job found it, no local monthly
\* file exists and the job reports SUCCESS.
C7_MonthlyGating ==
    pc = "report" /\ job.upload_ok
    => /\ job.monthly_ran <=> DayOfMonth(now) = 1
       /\ job.weekly_empty
          => /\ DOMAIN remote[idx]["monthly"] = job.monthly_before
             /\ ~Exists(job.monthly_name)
             /\ Upper(job.status) = "SUCCESS"

C7_Witness ==
    /\ pc = "report"
    /\ job.upload_ok
    /\ job.monthly_ran
    /\ job.weekly_empty

RcloneSites == {"mkdir_daily", "mkdir_weekly", "mkdir_monthly", "upload_daily",
                "upload_weekly", "download_weekly", "upload_monthly"}

\* a step taken inside rclone_operation leaves the script in its caller
ReturnsToCaller == pc \in RcloneSites => pc' \notin {"crashed", "idle", "main"}

\* C8: a call of rclone_operation runs its command at most Retry times,
\* returns True exactly when a run succeeded, which is then its last run,
\* returns False only after Retry failed runs, and hands control back to
\* its caller in every case.
C8_BoundedRetry ==
    /\ [](/\ attempt < Retry
          /\ lastOp.site # "none"
             => /\ lastOp.attempts \in 1..Retry
                /\ lastOp.result <=> lastOp.oks = 1
                /\ ~lastOp.result => lastOp.attempts = Retry)
    /\ [][ReturnsToCaller]_vars

\* a call that succeeded in its second run after a failed first one
C8_Witness ==
    /\ lastOp.site = "upload_daily"
    /\ lastOp.result
    /\ lastOp.attempts = 2

\* number of deletefile commands run for name in the pass
DeleteRuns(name) == Cardinality({i \in 1..Len(mb.tried) : mb.tried[i] = name})

\* C9: in a retention pass, the deletion of an entry that failed has been
\* tried again before the pass went on.
C9_DeleteRetried ==
    pc \notin RunnerPcs => \A name \in mb.failed : DeleteRuns(name) >= 2

\* C10: a retention pass whose listing succeeded runs the deletion of every
\* stale entry, whether or not an earlier deletion failed; and once the daily
\* transfer has succeeded and the daily pass is over, the job's status is
\* success, whatever the listing and the deletions did.
C10_BestEffortPruning ==
    pc \notin RunnerPcs
    => /\ mb.done /\ mb.listed => Range(mb.tried) = Range(mb.stale)
       /\ job.upload_ok /\ ~(pc = "retain" /\ mb.tier = "daily")
          => Upper(job.status) = "SUCCESS"

\* a daily pass in which the first of two deletions failed has returned,
\* and the job goes on to the rotation with status success
C10_Witness ==
    /\ pc = "rotation"
    /\ mb.tier = "daily"
    /\ mb.done
    /\ Len(mb.stale) = 2
    /\ mb.failed = {mb.stale[1]}
    /\ Len(mb.tried) = 2
    /\ Upper(job.status) = "SUCCESS"

----------------------------------------------------------------------------
(* Properties of the job outcome and of the local staging directory *)

RotationSteps == {"weekly_copy", "upload_weekly", "weekly", "monthly_list",
                  "download_weekly", "upload_monthly", "monthly"}

\* C11: a job whose daily archive was built and transferred reaches
\* write_final_status with status success, whichever steps of the weekly and
\* monthly derivation failed (the local copy, the transfers, the download,
\* the listing, the retention passes); failures are recorded for rotation
\* steps only, and only in jobs whose daily transfer succeeded.
C11_PartialTierFailure ==
    pc \notin RunnerPcs
    => /\ job.tier_failures \subseteq RotationSteps
       /\ job.tier_failures # {} => job.upload_ok
       /\ pc \in {"local_cleanup", "report"} /\ job.upload_ok
          => Upper(job.status) = "SUCCESS"

\* a job reports after its weekly transfer was given up
C11_Witness ==
    /\ pc = "report"
    /\ job.upload_ok
    /\ "upload_weekly" \in job.tier_failures
    /\ Upper(job.status) = "SUCCESS"

\* C12: when a job whose daily transfer succeeded reaches write_final_status,
\* its local daily archive is gone if max_local_backups is 0 and is still in
\* the staging directory if max_local_backups is greater than 0.
C12_LocalCopyByConfig ==
    pc = "report" /\ job.upload_ok
    => /\ cfg.max_local_backups = 0 => ~Exists(job.backup_filename)
       /\ cfg.max_local_backups > 0 => Exists(job.backup_filename)

----------------------------------------------------------------------------
(* manage_local_backups on its own: a staging directory, applied twice *)

StrTarDotGz == <<116, 97, 114, 46, 103, 122>>

\* names a staging directory may hold: four archives, and two files that
\* are none, "tar.gz" and ".tar.gz.1"
StagingArchives ==
    {get_backup_filename("daily", NameA, [day |-> DaysFromCivil(2024, 12, 29), sec |-> 10847]),
     get_backup_filename("daily", NameA, [day |-> DaysFromCivil(2025, 1, 5), sec |-> 10847]),
     get_backup_filename("daily", NameB, [day |-> DaysFromCivil(2024, 12, 29), sec |-> 10900]),
     get_backup_filename("weekly", NameA, [day |-> DaysFromCivil(2024, 12, 29), sec |-> 10862])}

StagingOthers == {StrTarDotGz, StrTarGz \o <<46, 49>>}

StagingDirs ==
    {[f \in S |-> <<0, 1>>] : S \in SUBSET (StagingArchives \cup StagingOthers)}

\* os.listdir(backup_dir) and max_backups at the call
PickStaging ==
    /\ probe.stage = "none"
    /\ \E d \in StagingDirs, m \in 0..(MaxM + 1) :
          probe' = [stage |-> "staged", dir |-> d, M |-> m,
                    once |-> EmptyDir, twice |-> EmptyDir]
    /\ UNCHANGED runnerVars

\* manage_local_backups(backup_dir, max_backups)
EnforceOnce ==
    /\ probe.stage = "staged"
    /\ probe' = [probe EXCEPT !.stage = "once",
                              !.once = manage_local_backups(probe.dir, probe.M)]
    /\ UNCHANGED runnerVars

\* manage_local_backups(backup_dir, max_backups) again
EnforceTwice ==
    /\ probe.stage = "once"
    /\ probe' = [probe EXCEPT !.stage = "twice",
                              !.twice = manage_local_backups(probe.once, probe.M)]
    /\ UNCHANGED runnerVars

LocalNext == PickStaging \/ EnforceOnce \/ EnforceTwice

LocalSpec == Init /\ [][LocalNext]_vars

Archives(dir) == {f \in DOMAIN dir : EndsWithTarGz(f)}

\* C13: after manage_local_backups with maximum count M, the .tar.gz files of
\* the directory are none when M = 0, the M newest in name order when M > 0
\* and there were more than M, and the same as before when there were at most
\* M; every other file is still there, and no file is added or changed.
C13_LocalRetentionResult ==
    probe.stage \in {"once", "twice"}
    => LET before == Archives(probe.dir)
           after == Archives(probe.once)
       IN  /\ probe.M = 0 => after = {}
           /\ probe.M > 0 /\ Cardinality(before) > probe.M
              => after = Newest(before, probe.M)
           /\ probe.M > 0 /\ Cardinality(before) <= probe.M => after = before
           /\ DOMAIN probe.dir \ before \subseteq DOMAIN probe.once
           /\ DOMAIN probe.once \subseteq DOMAIN probe.dir
           /\ \A f \in DOMAIN probe.once : probe.once[f] = probe.dir[f]

\* four archives and two other files, M = 2
C13_Witness ==
    /\ probe.stage = "once"
    /\ probe.M = 2
    /\ DOMAIN probe.dir = StagingArchives \cup StagingOthers
    /\ Cardinality(DOMAIN probe.once) = 4

\* C14: a second manage_local_backups with the same M, right after the
\* first, leaves the directory as the first left it.
C14_IdempotentLocalRetention ==
    probe.stage = "twice" => probe.twice = probe.once

\* the first application removed files, the second none
C14_Witness ==
    /\ probe.stage = "twice"
    /\ probe.M = 1
    /\ Cardinality(Archives(probe.dir)) = 3
    /\ Cardinality(Archives(probe.once)) = 1
    /\ probe.twice = probe.once

----------------------------------------------------------------------------
(* Properties of the start of a run and of the loop over the jobs *)

\* C15: in each run the probe of the remote runs once, and before any job;
\* a reconnection is tried when the probe failed and only then, and once;
\* when the reconnection fails too the run ends there: no job has started,
\* no FINAL_STATUS line is written, and the staging directory and the remote
\* tiers are as the run found them.
C15_ConnectivityGate ==
    /\ gate.probes <= 1
    /\ gate.reconnects <= 1
    /\ gate.reconnects = 1 <=> gate.probe = "failed" /\ pc # "reconnect"
    /\ started # {} \/ outcomes # <<>> \/ pc \notin RunnerPcs \/ idx > 0
       => /\ gate.probes = 1
          /\ gate.probe = "ok" \/ gate.reconnect = "ok"
    /\ gate.reconnect = "failed"
       => /\ pc = "idle"
          /\ started = {}
          /\ outcomes = <<>>
          /\ job = NoJob
          /\ gate.snapshot = <<localDir, remote>>

\* the second run of the script is stopped at the gate
C15_Witness ==
    /\ gate.reconnect = "failed"
    /\ gate.probes = 1
    /\ gate.reconnects = 1
    /\ run = 2
    /\ pc = "idle"

\* C16: an exception raised inside a job never ends the script: every job
\* that met one has its FINAL_STATUS line, with FAILURE, and the loop of main
\* goes on with the next configuration.
C16_ErrorsCaughtAtJobBoundary ==
    /\ pc # "crashed"
    /\ \A e \in aborted :
          \E i \in 1..Len(outcomes) :
             outcomes[i].exec = e /\ outcomes[i].status = "FAILURE"

\* job executions of this run for the configurations 1..n
Execs(n) == {<<run, i>> : i \in 1..n}

\* the step main takes at a configuration that load_yaml_config rejected:
\* one FINAL_STATUS line, at once, and nothing else
SkipsCleanly ==
    pc = "main" /\ idx \in 1..Len(configs) /\ ~configs[idx].valid
    => /\ localDir' = localDir
       /\ remote' = remote
       /\ now' = now
       /\ pc' = "main"
       /\ Len(outcomes') = Len(outcomes) + 1
       /\ outcomes'[Len(outcomes')] =
             [exec |-> exec, backup |-> configs[idx].backup_name, status |-> "FAILURE"]

\* C17: a configuration that load_yaml_config rejects gets its FAILURE line
\* at once, with no local or remote operation, and the loop goes on: the
\* jobs are started in list order, each after the one before it has come
\* back, and when main returns every configuration of the list has its line.
C17_InvalidJobSkipped ==
    /\ [](/\ pc = "main" => started = Execs(idx - 1) /\ ended = started
          /\ pc \notin RunnerPcs
             => started = Execs(idx) /\ ended = started \ {exec}
          /\ pc = "idle" /\ idx > 0 => ended = Execs(Len(configs))
          /\ \A i \in 1..Len(outcomes) : outcomes[i].exec = <<run, i>>)
    /\ [][SkipsCleanly]_vars

\* the first configuration was rejected, the second ran and succeeded
C17_Witness ==
    /\ pc = "idle"
    /\ ~configs[1].valid
    /\ Len(outcomes) = 2
    /\ outcomes[1].status = "FAILURE"
    /\ outcomes[2].status = "SUCCESS"
    /\ DOMAIN remote[2]["daily"] # {}

----------------------------------------------------------------------------
(* Properties of the daily tier *)

----------------------------------------------------------------------------
(* create_tarball on its own: a small file system, a mapping of paths to   *)
(* include flags, and the members of the archive that tarfile writes.      *)
(* A path is the sequence of its names, each a sequence of character codes. *)

PathSrv     == <<(<<115>>)>>                              \* /s, BASE_DIR
PathStaging == PathSrv \o <<(<<114>>)>>                   \* /s/r, LOCAL_BACKUP_DIR
PathOld     == PathStaging \o <<(<<111>> \o StrTarGz)>>   \* /s/r/o.tar.gz
PathWww     == PathSrv \o <<(<<119>>)>>                   \* /s/w
PathCache   == PathWww \o <<(<<99>>)>>                    \* /s/w/c
PathIndex   == PathWww \o <<(<<105>>)>>                   \* /s/w/i
PathEtc     == <<(<<101>>)>>                              \* /e
PathMnt     == <<(<<109>>)>>                              \* /m, never there

\* backup_filepath of the job that builds the archive
PathNew ==
    PathStaging \o <<get_backup_filename("daily", NameA,
                        [day |-> DaysFromCivil(2024, 12, 29), sec |-> 10847])>>

TreeDirs == {PathSrv, PathStaging, PathWww}

\* p is q or lies under q
Under(p, q) == Len(p) >= Len(q) /\ SubSeq(p, 1, Len(q)) = q

\* sorted(os.listdir(p)) as paths
SortedKids(p, fs) ==
    LET kids == {q \in fs : Len(q) = Len(p) + 1 /\ Under(q, p)}
        names == Sorted({q[Len(q)] : q \in kids})
    IN  [i \in 1..Len(names) |-> p \o <<names[i]>>]

RECURSIVE TarAdd(_, _, _, _)
RECURSIVE TarAddAll(_, _, _, _)

\* tar.add(name) with recursive=True: the members written, and whether a
\* PermissionError came out of it. The archive itself is skipped; a file is
\* opened before its member is written; a directory's member is written
\* before the directory is listed.
TarAdd(p, fs, denied, self) ==
    IF p = self THEN [members |-> {}, raised |-> FALSE]
    ELSE IF p \notin TreeDirs
    THEN IF p \in denied THEN [members |-> {}, raised |-> TRUE]
         ELSE [members |-> {p}, raised |-> FALSE]
    ELSE IF p \in denied THEN [members |-> {p}, raised |-> TRUE]
    ELSE LET res == TarAddAll(SortedKids(p, fs), fs, denied, self)
         IN  [members |-> {p} \cup res.members, raised |-> res.raised]

\* for f in sorted(os.listdir(name)): self.add(...), up to the first error
TarAddAll(kids, fs, denied, self) ==
    IF kids = <<>> THEN [members |-> {}, raised |-> FALSE]
    ELSE LET first == TarAdd(Head(kids), fs, denied, self)
         IN  IF first.raised THEN first
             ELSE LET rest == TarAddAll(Tail(kids), fs, denied, self)
                  IN  [members |-> first.members \cup rest.members,
                       raised |-> rest.raised]

\* os.makedirs(exclude_dir, exist_ok=True)
Makedirs(fs, dir) == fs \cup {SubSeq(dir, 1, n) : n \in 1..Len(dir)}

\* a variant without the inner try: a PermissionError of one path reaches
\* the outer except clause and the function returns False
create_tarball_unguarded(backup_filename, backup_paths, exclude_dir, fs, denied, writable) ==
    LET staged == Makedirs(fs, exclude_dir)
        opened == staged \cup {backup_filename}
        added == {p \in DOMAIN backup_paths : backup_paths[p] /\ p \in opened}
        refused == {p \in added : TarAdd(p, opened, denied, backup_filename).raised}
    IN  [fs |-> IF writable THEN opened ELSE staged,
         staged |-> exclude_dir \in staged,
         members |-> {}, refused |-> refused,
         result |-> writable /\ refused = {}]

\* create_tarball(backup_filename, backup_paths, exclude_dir): the file
\* system after the call, the members of the archive, the paths whose
\* tar.add raised PermissionError, and the value returned. exclude_dir is
\* created and not used again. When the archive cannot be opened for
\* writing the function returns False.
create_tarball(backup_filename, backup_paths, exclude_dir, fs, denied, writable) ==
    LET staged == Makedirs(fs, exclude_dir)
        opened == staged \cup {backup_filename}
        added == {p \in DOMAIN backup_paths : backup_paths[p] /\ p \in opened}
    IN  IF ~writable
        THEN [fs |-> staged, staged |-> exclude_dir \in staged,
              members |-> {}, refused |-> {}, result |-> FALSE]
        ELSE [fs |-> opened, staged |-> exclude_dir \in staged,
              members |-> UNION {TarAdd(p, opened, denied, backup_filename).members :
                                    p \in added},
              refused |-> {p \in added :
                              TarAdd(p, opened, denied, backup_filename).raised},
              result |-> TRUE]


\* the file systems tried: /s/w with its two files is always there, /e and
\* the staging directory with an older archive may be
TreeChoices ==
    {{PathSrv, PathWww, PathCache, PathIndex} \cup e \cup r :
        e \in {{}, {PathEtc}},
        r \in {{}, {PathStaging}, {PathStaging, PathOld}}}

\* the path whose reading raises PermissionError, if any
DeniedChoices == {{}, {PathCache}, {PathEtc}, {PathWww}}

MapKeys == {PathSrv, PathStaging, PathWww, PathCache, PathEtc, PathMnt}

\* config['backup_paths']: path -> include flag
MapChoices == UNION {[K -> BOOLEAN] : K \in SUBSET MapKeys}

\* the arguments of create_tarball and the file system it runs on
PickTree ==
    /\ probe.stage = "none"
    /\ configs = <<Config(NameA, 0, 0, TRUE), Config(NameB, 0, 0, TRUE)>>
    /\ \E fs \in TreeChoices, denied \in DeniedChoices, paths \in MapChoices,
          writable \in BOOLEAN :
          probe' = [stage |-> "tree", fs |-> fs, denied |-> denied \cap fs,
                    paths |-> paths, writable |-> writable,
                    out |-> [fs |-> {}, staged |-> FALSE, members |-> {},
                             refused |-> {}, result |-> FALSE]]
    /\ UNCHANGED runnerVars

\* create_tarball(backup_filepath, backup_paths, exclude_dir=LOCAL_BACKUP_DIR)
BuildArchive ==
    /\ probe.stage = "tree"
    /\ probe' = [probe EXCEPT
                   !.stage = "archived",
                   !.out = create_tarball(PathNew, probe.paths, PathStaging,
                                          probe.fs, probe.denied, probe.writable)]
    /\ UNCHANGED runnerVars

TarNext == PickTree \/ BuildArchive

TarSpec == Init /\ [][TarNext]_vars

Included(paths) == {p \in DOMAIN paths : paths[p]}

\* p and everything under it, but for the archive being written
Subtree(p, fs) == {q \in fs : Under(q, p)} \ {PathNew}

\* the mapping names an included path that does not exist, and tar.add
\* raised PermissionError for exactly one included path
RobustnessCase ==
    /\ probe.stage = "archived"
    /\ probe.writable
    /\ \E p \in Included(probe.paths) : p \notin probe.out.fs
    /\ Cardinality(probe.out.refused) = 1

\* C19 as stated: in that case create_tarball returns True, the archive
\* holds every other included path that exists, with all that is under it,
\* and holds no path whose flag is False.
C19_ArchiveRobustness ==
    RobustnessCase
    => /\ probe.out.result
       /\ \A p \in Included(probe.paths) \cap probe.out.fs :
             p \notin probe.out.refused
             => Subtree(p, probe.out.fs) \subseteq probe.out.members
       /\ \A p \in DOMAIN probe.paths :
             ~probe.paths[p] => p \notin probe.out.members

\* C19 amended: the same, except that a path whose flag is False is in the
\* archive when, and only when, tar.add reached it through an included
\* directory above it.
C19_ArchiveRobustnessNested ==
    RobustnessCase
    => /\ probe.out.result
       /\ \A p \in Included(probe.paths) \cap probe.out.fs :
             p \notin probe.out.refused
             => Subtree(p, probe.out.fs) \subseteq probe.out.members
       /\ \A p \in DOMAIN probe.paths :
             ~probe.paths[p] /\ p \in probe.out.members
             => \E q \in Included(probe.paths) : q # p /\ Under(p, q)

\* /m is included and missing, /e is included and unreadable, /s/w is
\* included and archived with /s/w/c, whose flag is False
C19_Witness ==
    /\ RobustnessCase
    /\ probe.paths = (PathMnt :> TRUE) @@ (PathEtc :> TRUE) @@ (PathWww :> TRUE)
                     @@ (PathCache :> FALSE)
    /\ probe.out.refused = {PathEtc}
    /\ probe.out.result
    /\ {PathWww, PathIndex, PathCache} \subseteq probe.out.members

\* C20: the archive create_tarball wrote holds neither the staging directory
\* nor a file under it, whatever paths the mapping includes, and the staging
\* directory was there before the archive was opened.
C20_NoSelfInclusion ==
    probe.stage = "archived" /\ probe.out.result
    => /\ \A m \in probe.out.members : ~Under(m, PathStaging)
       /\ probe.out.staged

----------------------------------------------------------------------------
(* Properties of the steps of a job *)

\* the run in which remote entry f of the weekly tier was uploaded (0 for
\* the entries the tier held when the model starts)
UploadedInRun(f) == remote[idx]["weekly"][f][1]

\* C21: when a job has uploaded its monthly archive, the entry it selected
\* in the weekly tier is the last name of the sorted listing, the monthly
\* archive is a copy of it, and no entry of the weekly tier was uploaded in
\* a later run than the selected one.
C21_MonthlyFromLatestWeekly ==
    pc = "report" /\ job.monthly_success
    => LET weekly == remote[idx]["weekly"]
           names == Sorted(DOMAIN weekly)
       IN  /\ job.latest_weekly = names[Len(names)]
           /\ remote[idx]["monthly"][job.monthly_name] = weekly[job.latest_weekly]
           /\ \A f \in DOMAIN weekly : UploadedInRun(f) <= UploadedInRun(job.latest_weekly)

\* a step of a job whose archive build failed: nothing is transferred,
\* pruned, copied or removed, and the step that returns to main writes FAILURE
AfterBuildFailure ==
    job.build_failed
    => /\ remote' = remote
       /\ localDir' = localDir
       /\ mb' = mb
       /\ pc' # "main" => lastOp' = lastOp
       /\ pc' \in {"local_cleanup", "report", "main"}
       /\ pc' = "main"
          => /\ Len(outcomes') = Len(outcomes) + 1
             /\ outcomes'[Len(outcomes')].exec = exec
             /\ outcomes'[Len(outcomes')].status = "FAILURE"

\* C22: after create_tarball returned False the job makes no transfer, runs
\* no retention pass, no weekly or monthly derivation and no local cleanup;
\* it writes its FINAL_STATUS line with FAILURE and returns.
C22_BuildFailureSkipsToReport ==
    /\ [](job.build_failed
          => /\ ~job.upload_ok
             /\ ~job.weekly_ran
             /\ ~job.monthly_ran
             /\ job.tier_failures = {}
             /\ mb = NoPass
             /\ pc \in {"rotation", "local_cleanup", "report"}
             /\ Upper(job.status) = "FAILURE")
    /\ [][AfterBuildFailure]_vars

\* on a Sunday that is the first of the month, a job whose build failed and
\* left a partly written archive is about to report
C22_Witness ==
    /\ pc = "report"
    /\ job.build_failed
    /\ Weekday(now) = 6
    /\ DayOfMonth(now) = 1
    /\ Exists(job.backup_filename)

\* C23: when the daily transfer is attempted, and in every later step of the
\* job, rclone mkdir has succeeded for the daily, the weekly and the monthly
\* directory of the job.
C23_DirsBeforeUpload ==
    pc = "upload_daily" \/ (pc \notin RunnerPcs /\ job.upload_ok)
    => job.mkdirs = Tiers

----------------------------------------------------------------------------
(* the local daily archive during the rotation *)

\* the steps of the weekly and monthly derivation of a job
DerivationSteps ==
    {"weekly_copy", "upload_weekly", "monthly_check", "monthly_list",
     "download_weekly", "monthly_copy", "upload_monthly", "monthly_cleanup"}

InDerivation ==
    pc \in DerivationSteps \/ (pc = "retain" /\ mb.tier # "daily")

\* the local daily archive of the job is removed by this step
DailyRemoved ==
    /\ job.backup_filename # NoName
    /\ Exists(job.backup_filename)
    /\ job.backup_filename \notin DOMAIN localDir'

\* C24: through every step of the weekly and monthly derivation the local
\* daily archive of the job exists and holds what this job built; the local
\* weekly copy about to be uploaded, and the weekly entry the upload writes,
\* hold that same content; and the local daily archive is removed only by
\* the cleanup that follows the derivation, and only when the status is
\* "success".
C24_CleanupAfterDerivation ==
    /\ [](InDerivation
          => /\ Exists(job.backup_filename)
             /\ localDir[job.backup_filename] = exec)
    /\ [](pc = "upload_weekly"
          => /\ Exists(job.weekly_name)
             /\ localDir[job.weekly_name] = exec)
    /\ [][/\ DailyRemoved => pc = "local_cleanup" /\ job.status = "success"
          /\ pc = "upload_weekly" /\ job'.weekly_success
             => remote'[idx]["weekly"][job.weekly_name] = exec]_vars

\* a job that ran the weekly derivation with a successful upload and the
\* monthly derivation, and whose local daily archive is gone at the report
C24_Witness ==
    /\ pc = "report"
    /\ job.weekly_success
    /\ job.monthly_ran
    /\ job.status = "success"
    /\ ~Exists(job.backup_filename)

----------------------------------------------------------------------------
(* the entries of the tier directories *)

\* the call of rclone_operation that transfers into a tier, and the name
\* of the file it transfers
UploadSite == [daily |-> "upload_daily", weekly |-> "upload_weekly",
               monthly |-> "upload_monthly"]

UploadName(t) ==
    IF t = "daily" THEN job.backup_filename
    ELSE IF t = "weekly" THEN job.weekly_name
    ELSE job.monthly_name

\* this step is the return of a transfer into tier t that succeeded
Transferred(t) ==
    /\ pc = UploadSite[t]
    /\ lastOp'.site = pc
    /\ lastOp'.result

\* this step is a round of a transfer that failed
TransferFailed ==
    /\ \E t \in Tiers : pc = UploadSite[t]
    /\ ~(lastOp'.site = pc /\ lastOp'.result)

\* C25: in every step, of every job and run, the entries of a tier
\* directory gain a name only in the return of a successful transfer into
\* that tier by the job the directory belongs to, and then exactly the name
\* transferred; they lose names only in a step of the retention pass of that
\* tier and job, and then one name the pass had listed as stale; the listing
\* and the download of the monthly derivation, the local copies, and every
\* failed round of a transfer leave all tier directories as they are.
C25_TierFrame ==
    [][/\ \A i \in DOMAIN remote : \A t \in Tiers :
             LET before == DOMAIN remote[i][t]
                 after == DOMAIN remote'[i][t]
             IN  /\ after \ before # {}
                    => /\ i = idx
                       /\ Transferred(t)
                       /\ after = before \cup {UploadName(t)}
                 /\ before \ after # {}
                    => /\ i = idx
                       /\ pc = "retain"
                       /\ mb.listed
                       /\ mb.tier = t
                       /\ before \ after = {mb.stale[mb.i]}
       /\ pc \in {"monthly_list", "download_weekly", "monthly_copy",
                  "weekly_copy"}
          => remote' = remote
       /\ TransferFailed => remote' = remote]_vars

\* a job whose daily tier lost an entry and gained one, whose monthly
\* derivation downloaded a weekly entry, and whose monthly transfer failed
C25_Witness ==
    /\ pc = "report"
    /\ job.upload_ok
    /\ job.daily_before \ DOMAIN remote[idx]["daily"] # {}
    /\ job.latest_weekly # NoName
    /\ "upload_monthly" \in job.tier_failures
    /\ DOMAIN remote[idx]["monthly"] = job.monthly_before

----------------------------------------------------------------------------
(* the scratch files of the rotation *)

\* C26: when a job that ran the weekly or the monthly derivation reaches
\* its report, the staging directory holds neither the local weekly copy,
\* nor the downloaded weekly file, nor the local monthly copy of the job.
C26_ScratchRemoved ==
    pc = "report" /\ (job.weekly_ran \/ job.monthly_ran)
    => /\ ~Exists(job.weekly_name)
       /\ ~Exists(job.latest_weekly)
       /\ ~Exists(job.monthly_name)

----------------------------------------------------------------------------
(* log2telegram.py: the notifier that reads the log of the runner *)

MaxLines == 3         \* records in one log file
MaxRollovers == 2     \* rollovers of the log file

\* the inode numbers the file system hands out
Inodes == 1..3

\* a line of the log: one whose message carries "FINAL_STATUS |", or any
\* other line; the sizes are in units of the shorter kind, a FINAL_STATUS
\* line being its prefix of three fields and then its message
LineKinds == {"final", "other"}

LineLen(kind) == IF kind = "final" THEN 2 ELSE 1

RECURSIVE FileLen(_)
FileLen(lines) ==
    IF lines = <<>> THEN 0 ELSE LineLen(Head(lines)) + FileLen(Tail(lines))

\* the offset at which line i of the file starts
LineStart(lines, i) == FileLen(SubSeq(lines, 1, i - 1))

\* f.seek(state.position); lines = f.readlines(): the lines that have data
\* at or after the position, the first of them cut when the position is
\* inside it
ReadLines(lines, position) ==
    {i \in 1..Len(lines) : LineStart(lines, i) + LineLen(lines[i]) > position}

\* final_status_entries: the lines read whose split(" - ", 3) has four parts
\* and whose message matches FINAL_STATUS_PATTERN; a line cut inside has lost
\* its prefix and is skipped as malformed
FinalStatusEntries(lines, position) ==
    {i \in ReadLines(lines, position) :
        LineStart(lines, i) >= position /\ lines[i] = "final"}

\* log_notifier_state.json before the first save
NoState == [file |-> "absent", inode |-> 0, position |-> 0]

\* LogState.__init__ and load_state: inode None and position 0 unless the
\* state file is there and json.load reads it
load_state(statefile) ==
    IF statefile.file = "ok"
    THEN [inode |-> statefile.inode, position |-> statefile.position]
    ELSE [inode |-> 0, position |-> 0]

\* open(self.state_file, 'w') and json.dump: written, or open refused, or
\* the file truncated by open and the dump failed; the exception is logged
SaveOutcomes == {"saved", "refused", "torn"}

save_state(statefile, inode, position, outcome) ==
    IF outcome = "saved"
    THEN [file |-> "ok", inode |-> inode, position |-> position]
    ELSE IF outcome = "refused"
    THEN statefile
    ELSE [file |-> "corrupt", inode |-> 0, position |-> 0]

\* a variant that keeps the saved position when the inode has changed
StartPosition_kept(state, current_inode) == state.position

\* if state.inode != current_inode: state.position = 0
StartPosition(state, current_inode) ==
    IF state.inode # current_inode THEN 0 ELSE state.position

\* what one invocation of process_log did; probe.times counts, for each
\* line of the log file, the invocations that handed it to
\* send_telegram_message, and probe.faults the saves that failed
NoPassLog == [ran |-> FALSE, changed |-> FALSE, start |-> 0, read |-> {},
              handed |-> {}, failed |-> {}, saved |-> "none"]

\* the log file of the runner and the state file of the notifier, before
\* either script has run; the log file may or may not be there yet
StartNotifier ==
    /\ probe.stage = "none"
    /\ configs = <<Config(NameA, 0, 0, TRUE), Config(NameB, 0, 0, TRUE)>>
    /\ \E exists \in BOOLEAN :
          probe' = [stage |-> "log", exists |-> exists, inode |-> 1,
                    lines |-> <<>>, times |-> <<>>, rollovers |-> 0,
                    statefile |-> NoState, faults |-> 0, last |-> NoPassLog]
    /\ UNCHANGED runnerVars

\* the runner's RotatingFileHandler writes one record to the log file
AppendLine ==
    /\ probe.stage = "log"
    /\ Len(probe.lines) < MaxLines
    /\ \E kind \in LineKinds :
          probe' = [probe EXCEPT !.exists = TRUE,
                                 !.lines = Append(@, kind),
                                 !.times = Append(@, 0),
                                 !.last = NoPassLog]
    /\ UNCHANGED runnerVars

\* RotatingFileHandler with backupCount=1 rolls over: the old .1 file is
\* deleted, the log is renamed to .1 and a new log file is created, on an
\* inode other than the one the renamed file holds
Rollover ==
    /\ probe.stage = "log"
    /\ probe.exists
    /\ probe.lines # <<>>
    /\ probe.rollovers < MaxRollovers
    /\ \E inode \in Inodes \ {probe.inode} :
          probe' = [probe EXCEPT !.inode = inode,
                                 !.lines = <<>>,
                                 !.times = <<>>,
                                 !.rollovers = @ + 1,
                                 !.last = NoPassLog]
    /\ UNCHANGED runnerVars

\* main() of log2telegram.py: LogState(STATE_FILE_PATH), then process_log
process_log ==
    /\ probe.stage = "log"
    /\ LET state == load_state(probe.statefile)
           position == StartPosition(state, probe.inode)
           lines == ReadLines(probe.lines, position)
           entries == FinalStatusEntries(probe.lines, position)
           began == [NoPassLog EXCEPT !.ran = TRUE]
       IN  IF ~probe.exists
           THEN probe' = [probe EXCEPT !.last = began]
           ELSE IF lines = {}
           THEN probe' = [probe EXCEPT
                            !.last = [began EXCEPT
                                        !.changed = (state.inode # probe.inode),
                                        !.start = position]]
           ELSE \E sent \in [entries -> BOOLEAN], outcome \in SaveOutcomes :
                   /\ outcome # "saved" => probe.faults < MaxFaults
                   /\ probe' = [probe EXCEPT
                        !.faults = IF outcome = "saved" THEN @ ELSE @ + 1,
                        !.statefile = save_state(@, probe.inode,
                                                 FileLen(probe.lines), outcome),
                        !.times = [i \in DOMAIN @ |->
                                     IF i \in entries THEN @[i] + 1 ELSE @[i]],
                        !.last = [ran |-> TRUE,
                                  changed |-> (state.inode # probe.inode),
                                  start |-> position,
                                  read |-> lines,
                                  handed |-> entries,
                                  failed |-> {i \in entries : ~sent[i]},
                                  saved |-> outcome]]
    /\ UNCHANGED runnerVars

LogNext == StartNotifier \/ AppendLine \/ Rollover \/ process_log

LogSpec == Init /\ [][LogNext]_vars

\* the FINAL_STATUS lines of the current log file
FinalLines == {i \in 1..Len(probe.lines) : probe.lines[i] = "final"}

\* every save of the notifier's state has succeeded so far
Persisted == probe.faults = 0

\* C27: as long as every save of the notifier's state has succeeded, no
\* FINAL_STATUS line of the log file has been handed to
\* send_telegram_message in two invocations; right after an invocation that
\* read lines and saved its state, the state file holds the inode of the log
\* file and the offset of its end, also when a send failed; and right after
\* an invocation that found another inode than the one it had loaded, the
\* read started at offset 0 and handed over every FINAL_STATUS line of the
\* file.
C27_OnlyNewEntries ==
    probe.stage = "log"
    => /\ Persisted => \A i \in DOMAIN probe.times : probe.times[i] <= 1
       /\ probe.last.ran /\ probe.last.read # {} /\ probe.last.saved = "saved"
          => probe.statefile = [file |-> "ok", inode |-> probe.inode,
                                position |-> FileLen(probe.lines)]
       /\ probe.last.ran /\ probe.last.changed
          => /\ probe.last.start = 0
             /\ probe.last.read = 1..Len(probe.lines)
             /\ probe.last.handed = FinalLines

\* after a rollover, an invocation on the inode it had saved: it started
\* past a FINAL_STATUS line that an earlier invocation had handed over, read
\* the lines written since, had a send fail and saved its state
C27_Witness ==
    /\ probe.stage = "log"
    /\ Persisted
    /\ probe.rollovers > 0
    /\ probe.last.ran
    /\ ~probe.last.changed
    /\ probe.last.start > 0
    /\ probe.last.failed # {}
    /\ probe.last.saved = "saved"
    /\ \E i \in FinalLines :
          /\ LineStart(probe.lines, i) < probe.last.start
          /\ probe.times[i] = 1

=============================================================================
